---- MODULE Spec2Model ----
(***************************************************************************)
(* Model of the pick engine (engine/pick_engine.py) and of the stats       *)
(* ingestion step (data/vlrgg_client.py).                                  *)
(*                                                                         *)
(* Numbers.  Python floats are modelled as exact rationals, records        *)
(* [n |-> numerator, d |-> denominator] with d > 0 in lowest terms, so     *)
(* that every comparison the code makes (thresholds, the sort key, the     *)
(* clamps) is decided exactly.  math.erf is modelled by its values on a    *)
(* grid of 0.01 in z, rounded to four decimals, with linear interpolation  *)
(* between grid points.                                                    *)
(***************************************************************************)
EXTENDS Integers, Sequences, FiniteSets, TLC

VARIABLES
    segments,     \* rows served by the /stats endpoint (payload data.segments)
    players,      \* result of build_players_from_stats in the last build_picks call
    risk_mode,    \* risk_mode argument of the last build_picks call ("none" before)
    picks,        \* list returned by the last build_picks call
    earlier,      \* risk_mode, players and picks of the build_picks call before the last
    edge_in,      \* edge handed to the classifiers / probability function
    stat_in,      \* stat_type argument of the last _recommendation_from_edge call
    mode_in,      \* risk_mode argument of the last _recommendation_from_edge call
    rec_out,      \* its result ("none" before the first call)
    conf_out,     \* result of the last _confidence_from_edge call
    prob_out,     \* result of the last _edge_to_probability_over call
    player_in,    \* player record handed to the body of the loop of build_picks
    pick_mode,    \* risk_mode of the last run of that body ("none" before)
    pick_out,     \* <<the PickResult it appended>> (<<>> before)
    edge_args,    \* projection, line_value and spread handed to _edge_score
    edge_out      \* <<its result>> (<<>> before the call)

vars == <<segments, players, risk_mode, picks, earlier,
          edge_in, stat_in, mode_in, rec_out, conf_out, prob_out,
          player_in, pick_mode, pick_out, edge_args, edge_out>>

engineVars == <<segments, players, risk_mode, picks, earlier>>
unitVars == <<edge_in, stat_in, mode_in, rec_out, conf_out, prob_out>>
stepVars == <<player_in, pick_mode, pick_out, edge_args, edge_out>>

(***************************************************************************)
(* Bounds of the model.                                                    *)
(***************************************************************************)
\* largest number of rows in the stats payload
MaxPlayers == 2
\* the classifiers are probed on edges -MaxEdge/100 .. MaxEdge/100, step 0.01
MaxEdge == 450

(***************************************************************************)
(* Float arithmetic, as exact rationals.                                   *)
(***************************************************************************)
RECURSIVE Gcd(_, _)
Gcd(a, b) == IF b = 0 THEN a ELSE Gcd(b, a % b)

IAbs(i) == IF i < 0 THEN -i ELSE i

\* the rational n/d (d # 0) in lowest terms with a positive denominator
Q(n, d) ==
    LET g == Gcd(IAbs(n), IAbs(d))
        s == IF d < 0 THEN -1 ELSE 1
    IN  [n |-> (s * n) \div g, d |-> (s * d) \div g]

RAdd(a, b) == Q(a.n * b.d + b.n * a.d, a.d * b.d)
RSub(a, b) == Q(a.n * b.d - b.n * a.d, a.d * b.d)
RMul(a, b) == Q(a.n * b.n, a.d * b.d)
\* a / b for b # 0
RDiv(a, b) == Q(a.n * b.d, a.d * b.n)
RNeg(a) == [n |-> -a.n, d |-> a.d]
RLt(a, b) == a.n * b.d < b.n * a.d
RLe(a, b) == a.n * b.d <= b.n * a.d
RGe(a, b) == RLe(b, a)
RGt(a, b) == RLt(b, a)
\* Python's abs
RAbs(a) == [n |-> IAbs(a.n), d |-> a.d]
\* Python's max(a, b) and min(a, b): the first argument unless the second is
\* strictly larger (smaller)
RMax(a, b) == IF RGt(b, a) THEN b ELSE a
RMin(a, b) == IF RLt(b, a) THEN b ELSE a

\* Python's round(x) of a float: the nearest integer, ties to the even one
RRound(a) ==
    LET fl == a.n \div a.d
        r2 == 2 * (a.n - fl * a.d)
    IN  IF r2 < a.d THEN fl
        ELSE IF r2 > a.d THEN fl + 1
        ELSE IF fl % 2 = 0 THEN fl ELSE fl + 1

\* the integer printed by the format specs :.0f, :.1f, :.2f, in units of
\* 10^-digits (correctly rounded, ties to even)
Pow10(k) == IF k = 0 THEN 1 ELSE IF k = 1 THEN 10 ELSE 100
Fmt(a, digits) == RRound(RMul(a, Q(Pow10(digits), 1)))

(***************************************************************************)
(* data/vlrgg_client.py: raw cells of the stats table.                     *)
(* A cell is a string: "num" is a decimal literal such as "1.30", "pct" a  *)
(* decimal literal followed by a percent sign such as "85%", "bad" any     *)
(* text float() rejects (such as "" or "N/A"); "absent" says the column    *)
(* is not in the table, so that row.get returns its default.               *)
(***************************************************************************)
Num(n, d) == [kind |-> "num", val |-> Q(n, d)]
Pct(n) == [kind |-> "pct", val |-> Q(n, 1)]
Bad == [kind |-> "bad", val |-> Q(0, 1)]
Absent == [kind |-> "absent", val |-> Q(0, 1)]

EXPECTED_ROUNDS_PER_MAP == 22

\* the players build_players_from_stats keeps: head(40)
TopPlayers == 40

AGENT_TO_ROLE ==
    [a \in {"jett", "neon", "raze", "yoru", "iso", "reyna", "waylay", "pheonix",
            "omen", "clove", "viper", "brimstone", "harbor", "astra",
            "gekko", "sova", "fade", "kayo", "breach", "skye", "tejo",
            "cypher", "killjoy", "vyse", "deadlock", "sage", "chamber", "veto"} |->
        IF a \in {"jett", "neon", "raze", "yoru", "iso", "reyna", "waylay", "pheonix"}
        THEN "duelist"
        ELSE IF a \in {"omen", "clove", "viper", "brimstone", "harbor", "astra"}
        THEN "controller"
        ELSE IF a \in {"gekko", "sova", "fade", "kayo", "breach", "skye", "tejo"}
        THEN "initiator"
        ELSE "sentinels"]

\* str.lower() on the names that occur in the rows
Lower(s) ==
    CASE s = "Jett" -> "jett"
      [] s = "Omen" -> "omen"
      [] s = "Sova" -> "sova"
      [] s = "MIBR" -> "mibr"
      [] s = "Less" -> "less"
      [] s = "Unknown" -> "unknown"
      [] OTHER -> s

\* row.get(column, default)
RowGet(row, column, default) ==
    IF row[column].kind = "absent" THEN default ELSE row[column]

_float_safe(x, default) ==
    IF x.kind = "num" THEN x.val ELSE default

_parse_kast(kast_raw) ==
    IF kast_raw.kind \in {"num", "pct"}
    THEN RDiv(kast_raw.val, Q(100, 1))
    ELSE Q(70, 100)

\* the roles of the recognised agents, without repetition, in order
RECURSIVE RolesSeen(_, _)
RolesSeen(agent_names, roles_seen) ==
    IF agent_names = <<>> THEN roles_seen
    ELSE LET name == Lower(Head(agent_names))
             known == name \in DOMAIN AGENT_TO_ROLE
             seen == known /\ \E i \in 1..Len(roles_seen) :
                                  roles_seen[i] = AGENT_TO_ROLE[name]
         IN  RolesSeen(Tail(agent_names),
                       IF known /\ ~seen
                       THEN Append(roles_seen, AGENT_TO_ROLE[name])
                       ELSE roles_seen)

\* agents_raw is the list of agent names of the row
_infer_role_from_agents(agents_raw) ==
    IF agents_raw = <<>> THEN "Unknown"
    ELSE LET roles_seen == RolesSeen(agents_raw, <<>>)
         IN  IF roles_seen = <<>> THEN "Unknown"
             ELSE IF Len(roles_seen) = 1 THEN roles_seen[1]
             ELSE "Flex"

\* one iteration of the loop over df.iterrows()
PlayerOfRow(row) ==
    LET handle == row.player
        team == IF row.org = "" THEN "Unknown" ELSE row.org
        rating == _float_safe(row.rating, Q(1, 1))
        kpr == _float_safe(RowGet(row, "kills_per_round", Num(8, 10)), Q(8, 10))
        apr == _float_safe(RowGet(row, "assists_per_round", Num(3, 10)), Q(3, 10))
        kast == _parse_kast(RowGet(row, "kill_assists_survived_traded", Pct(70)))
        rounds_played ==
            _float_safe(RowGet(row, "rounds_played",
                               Num(EXPECTED_ROUNDS_PER_MAP * 10, 1)),
                        Q(EXPECTED_ROUNDS_PER_MAP * 10, 1))
        maps ==
            LET m == RRound(RDiv(rounds_played, Q(EXPECTED_ROUNDS_PER_MAP, 1)))
            IN  IF m > 1 THEN m ELSE 1
        consistency ==
            RMax(Q(0, 1),
                 RMin(Q(1, 1),
                      RAdd(RDiv(RMul(Q(1, 2), RSub(kast, Q(65, 100))), Q(15, 100)),
                           RDiv(RMul(Q(1, 2), RSub(rating, Q(9, 10))), Q(4, 10)))))
        agents_raw == IF row.agents # <<>> THEN row.agents ELSE row.agent
    IN  [id |-> Lower(team) \o Lower(handle),
         handle |-> handle,
         team |-> team,
         role |-> _infer_role_from_agents(agents_raw),
         kills_per_map |-> RMul(kpr, Q(EXPECTED_ROUNDS_PER_MAP, 1)),
         assists_per_map |-> RMul(apr, Q(EXPECTED_ROUNDS_PER_MAP, 1)),
         rating |-> rating,
         kast |-> kast,
         maps_played |-> maps,
         consistency |-> consistency]

\* df.sort_values("rating_float", ascending=False): rows of higher rating
\* first; rows of equal rating are kept in their order in the table (what
\* the default sort does on tables this small)
RECURSIVE InsertByRating(_, _)
InsertByRating(sorted, row) ==
    IF sorted = <<>> THEN <<row>>
    ELSE IF RGe(_float_safe(Head(sorted).rating, Q(1, 1)),
                _float_safe(row.rating, Q(1, 1)))
    THEN <<Head(sorted)>> \o InsertByRating(Tail(sorted), row)
    ELSE <<row>> \o sorted

RECURSIVE SortByRating(_, _)
SortByRating(df, sorted) ==
    IF df = <<>> THEN sorted
    ELSE SortByRating(Tail(df), InsertByRating(sorted, Head(df)))

\* df.head(40)
HeadRows(df) ==
    IF Len(df) <= TopPlayers THEN df ELSE SubSeq(df, 1, TopPlayers)

build_players_from_stats(df) ==
    LET top == HeadRows(SortByRating(df, <<>>))
    IN  [i \in 1..Len(top) |-> PlayerOfRow(top[i])]

(***************************************************************************)
(* engine/pick_engine.py                                                   *)
(***************************************************************************)
RiskModes == {"safe", "standard", "yolo"}
\* a loop over the kills only
StatTypesKillsOnly == <<"kills">>
StatTypes == <<"kills", "assists">>

\* a projection without the floor at 0
ProjectionUnfloored(player, stat_type) ==
    LET dr == RSub(player.rating, Q(1, 1))
        dk == RSub(player.kast, Q(72, 100))
    IN  IF stat_type = "kills"
        THEN RAdd(RAdd(player.kills_per_map, RMul(Q(4, 1), dr)),
                  RMul(Q(10, 1), dk))
        ELSE RAdd(RAdd(player.assists_per_map, RMul(Q(25, 10), dr)),
                  RMul(Q(6, 1), dk))

\* a projection with the weights of the two stat types exchanged
ProjectionWeightsSwapped(player, stat_type) ==
    LET dr == RSub(player.rating, Q(1, 1))
        dk == RSub(player.kast, Q(72, 100))
        proj ==
            IF stat_type = "kills"
            THEN RAdd(RAdd(player.kills_per_map, RMul(Q(25, 10), dr)),
                      RMul(Q(6, 1), dk))
            ELSE RAdd(RAdd(player.assists_per_map, RMul(Q(4, 1), dr)),
                      RMul(Q(10, 1), dk))
    IN  RMax(Q(0, 1), proj)

_projection_for_stat(player, stat_type) ==
    LET dr == RSub(player.rating, Q(1, 1))
        dk == RSub(player.kast, Q(72, 100))
        proj ==
            IF stat_type = "kills"
            THEN RAdd(RAdd(player.kills_per_map, RMul(Q(4, 1), dr)),
                      RMul(Q(10, 1), dk))
            ELSE RAdd(RAdd(player.assists_per_map, RMul(Q(25, 10), dr)),
                      RMul(Q(6, 1), dk))
    IN  RMax(Q(0, 1), proj)

\* a line whose assists branch has no minimum
LineAssistsUnfloored(player, stat_type) ==
    IF stat_type = "kills"
    THEN RAdd(Q(RRound(player.kills_per_map), 1), Q(1, 2))
    ELSE RSub(Q(RRound(player.assists_per_map), 1), Q(1, 2))

_line_for_stat(player, stat_type) ==
    IF stat_type = "kills"
    THEN RAdd(Q(RRound(player.kills_per_map), 1), Q(1, 2))
    ELSE RMax(Q(1, 2), RSub(Q(RRound(player.assists_per_map), 1), Q(1, 2)))

\* a spread without the floor at 0.5
SpreadUnfloored(player, stat_type) ==
    LET cons == player.consistency
        base == IF stat_type = "kills" THEN Q(3, 1) ELSE Q(2, 1)
    IN  RMul(base, RSub(Q(1, 1), RMul(Q(3, 10), cons)))

_spread_for_stat(player, stat_type) ==
    LET cons == player.consistency
        base == IF stat_type = "kills" THEN Q(3, 1) ELSE Q(2, 1)
        adj == RMul(base, RSub(Q(1, 1), RMul(Q(3, 10), cons)))
    IN  RMax(Q(1, 2), adj)

\* an edge score that replaces a spread <= 0 by 1.0
EdgeScoreReplacedByOne(projection, line_value, spread) ==
    LET sp == IF RLe(spread, Q(0, 1)) THEN Q(1, 1) ELSE spread
    IN  RDiv(RSub(projection, line_value), sp)

\* an edge score with the difference reversed
EdgeScoreReversed(projection, line_value, spread) ==
    LET sp == IF RLe(spread, Q(0, 1)) THEN Q(1, 2) ELSE spread
    IN  RDiv(RSub(line_value, projection), sp)

_edge_score(projection, line_value, spread) ==
    LET sp == IF RLe(spread, Q(0, 1)) THEN Q(1, 2) ELSE spread
    IN  RDiv(RSub(projection, line_value), sp)

\* math.erf(z / math.sqrt(2)) for z = 0.00, 0.01, ..., in units of 10^-4;
\* the last entry is the first that rounds to 1.0000
ErfTable ==
    <<
       0, 80, 160, 239, 319, 399, 478, 558, 638, 717, 797, 876,
       955, 1034, 1113, 1192, 1271, 1350, 1428, 1507, 1585, 1663, 1741, 1819,
       1897, 1974, 2051, 2128, 2205, 2282, 2358, 2434, 2510, 2586, 2661, 2737,
       2812, 2886, 2961, 3035, 3108, 3182, 3255, 3328, 3401, 3473, 3545, 3616,
       3688, 3759, 3829, 3899, 3969, 4039, 4108, 4177, 4245, 4313, 4381, 4448,
       4515, 4581, 4647, 4713, 4778, 4843, 4907, 4971, 5035, 5098, 5161, 5223,
       5285, 5346, 5407, 5467, 5527, 5587, 5646, 5705, 5763, 5821, 5878, 5935,
       5991, 6047, 6102, 6157, 6211, 6265, 6319, 6372, 6424, 6476, 6528, 6579,
       6629, 6680, 6729, 6778, 6827, 6875, 6923, 6970, 7017, 7063, 7109, 7154,
       7199, 7243, 7287, 7330, 7373, 7415, 7457, 7499, 7540, 7580, 7620, 7660,
       7699, 7737, 7775, 7813, 7850, 7887, 7923, 7959, 7995, 8029, 8064, 8098,
       8132, 8165, 8198, 8230, 8262, 8293, 8324, 8355, 8385, 8415, 8444, 8473,
       8501, 8529, 8557, 8584, 8611, 8638, 8664, 8690, 8715, 8740, 8764, 8789,
       8812, 8836, 8859, 8882, 8904, 8926, 8948, 8969, 8990, 9011, 9031, 9051,
       9070, 9090, 9109, 9127, 9146, 9164, 9181, 9199, 9216, 9233, 9249, 9265,
       9281, 9297, 9312, 9328, 9342, 9357, 9371, 9385, 9399, 9412, 9426, 9439,
       9451, 9464, 9476, 9488, 9500, 9512, 9523, 9534, 9545, 9556, 9566, 9576,
       9586, 9596, 9606, 9615, 9625, 9634, 9643, 9651, 9660, 9668, 9676, 9684,
       9692, 9700, 9707, 9715, 9722, 9729, 9736, 9743, 9749, 9756, 9762, 9768,
       9774, 9780, 9786, 9791, 9797, 9802, 9807, 9812, 9817, 9822, 9827, 9832,
       9836, 9840, 9845, 9849, 9853, 9857, 9861, 9865, 9869, 9872, 9876, 9879,
       9883, 9886, 9889, 9892, 9895, 9898, 9901, 9904, 9907, 9909, 9912, 9915,
       9917, 9920, 9922, 9924, 9926, 9929, 9931, 9933, 9935, 9937, 9939, 9940,
       9942, 9944, 9946, 9947, 9949, 9950, 9952, 9953, 9955, 9956, 9958, 9959,
       9960, 9961, 9963, 9964, 9965, 9966, 9967, 9968, 9969, 9970, 9971, 9972,
       9973, 9974, 9975, 9976, 9976, 9977, 9978, 9979, 9979, 9980, 9981, 9981,
       9982, 9983, 9983, 9984, 9984, 9985, 9985, 9986, 9986, 9987, 9987, 9988,
       9988, 9988, 9989, 9989, 9990, 9990, 9990, 9991, 9991, 9991, 9992, 9992,
       9992, 9992, 9993, 9993, 9993, 9994, 9994, 9994, 9994, 9994, 9995, 9995,
       9995, 9995, 9995, 9996, 9996, 9996, 9996, 9996, 9996, 9996, 9997, 9997,
       9997, 9997, 9997, 9997, 9997, 9997, 9997, 9998, 9998, 9998, 9998, 9998,
       9998, 9998, 9998, 9998, 9998, 9998, 9998, 9998, 9999, 9999, 9999, 9999,
       9999, 9999, 9999, 9999, 9999, 9999, 9999, 9999, 9999, 9999, 9999, 9999,
       9999, 9999, 9999, 9999, 9999, 9999, 9999, 9999, 9999, 9999, 10000
    >>

\* math.erf(z / math.sqrt(2)): odd in z, read from the table at the grid
\* point below |z| and interpolated linearly to the next one; 1.0 past the
\* end of the table
ErfOfZ(z) ==
    LET mag == RAbs(z)
        h == mag.n * 100
        k == h \div mag.d
        r == h % mag.d
        v == IF k + 1 >= Len(ErfTable) THEN ErfTable[Len(ErfTable)]
             ELSE ErfTable[k + 1]
                  + ((ErfTable[k + 2] - ErfTable[k + 1]) * r) \div mag.d
    IN  IF z.n < 0 THEN Q(-v, 10000) ELSE Q(v, 10000)

\* a probability function without the clamp
ProbabilityUnclamped(edge) ==
    RMul(Q(1, 2), RAdd(Q(1, 1), ErfOfZ(edge)))

\* a probability function with the two bounds of the clamp exchanged
ProbabilityClampSwapped(edge) ==
    LET prob == RMul(Q(1, 2), RAdd(Q(1, 1), ErfOfZ(edge)))
    IN  RMax(Q(99, 100), RMin(Q(1, 100), prob))

_edge_to_probability_over(edge) ==
    LET z == edge
        prob == RMul(Q(1, 2), RAdd(Q(1, 1), ErfOfZ(z)))
    IN  RMax(Q(1, 100), RMin(Q(99, 100), prob))

\* a table with the rows of safe and yolo exchanged
ThresholdSafeYoloSwapped(risk_mode_, stat_type) ==
    LET thr_kills == IF risk_mode_ = "safe" THEN Q(4, 10)
                     ELSE IF risk_mode_ = "standard" THEN Q(7, 10)
                     ELSE Q(10, 10)
        thr_assists == IF risk_mode_ = "safe" THEN Q(35, 100)
                       ELSE IF risk_mode_ = "standard" THEN Q(6, 10)
                       ELSE Q(9, 10)
    IN  IF stat_type = "kills" THEN thr_kills ELSE thr_assists

\* a table whose standard row repeats the safe row
ThresholdStandardAsSafe(risk_mode_, stat_type) ==
    LET thr_kills == IF risk_mode_ = "safe" THEN Q(10, 10)
                     ELSE IF risk_mode_ = "standard" THEN Q(10, 10)
                     ELSE Q(4, 10)
        thr_assists == IF risk_mode_ = "safe" THEN Q(9, 10)
                       ELSE IF risk_mode_ = "standard" THEN Q(9, 10)
                       ELSE Q(35, 100)
    IN  IF stat_type = "kills" THEN thr_kills ELSE thr_assists

\* a table with the yolo thresholds of the two categories exchanged
ThresholdYoloSwapped(risk_mode_, stat_type) ==
    LET thr_kills == IF risk_mode_ = "safe" THEN Q(10, 10)
                     ELSE IF risk_mode_ = "standard" THEN Q(7, 10)
                     ELSE Q(35, 100)
        thr_assists == IF risk_mode_ = "safe" THEN Q(9, 10)
                       ELSE IF risk_mode_ = "standard" THEN Q(6, 10)
                       ELSE Q(4, 10)
    IN  IF stat_type = "kills" THEN thr_kills ELSE thr_assists

\* the threshold table of _recommendation_from_edge
Threshold(risk_mode_, stat_type) ==
    LET thr_kills == IF risk_mode_ = "safe" THEN Q(10, 10)
                     ELSE IF risk_mode_ = "standard" THEN Q(7, 10)
                     ELSE Q(4, 10)
        thr_assists == IF risk_mode_ = "safe" THEN Q(9, 10)
                       ELSE IF risk_mode_ = "standard" THEN Q(6, 10)
                       ELSE Q(35, 100)
    IN  IF stat_type = "kills" THEN thr_kills ELSE thr_assists

\* a classifier with strict comparisons
RecommendationStrict(edge, risk_mode_, stat_type) ==
    LET thr == Threshold(risk_mode_, stat_type)
    IN  IF RGt(edge, thr) THEN "Lean Over"
        ELSE IF RLt(edge, RNeg(thr)) THEN "Lean Under"
        ELSE "Stay Away"

_recommendation_from_edge(edge, risk_mode_, stat_type) ==
    LET thr == Threshold(risk_mode_, stat_type)
    IN  IF RGe(edge, thr) THEN "Lean Over"
        ELSE IF RLe(edge, RNeg(thr)) THEN "Lean Under"
        ELSE "Stay Away"

\* a confidence classifier without abs
ConfidenceSigned(edge) ==
    LET mag == edge
    IN  IF RGe(mag, Q(15, 10)) THEN "High"
        ELSE IF RGe(mag, Q(8, 10)) THEN "Medium"
        ELSE "Low"

_confidence_from_edge(edge) ==
    LET mag == RAbs(edge)
    IN  IF RGe(mag, Q(15, 10)) THEN "High"
        ELSE IF RGe(mag, Q(8, 10)) THEN "Medium"
        ELSE "Low"

\* an explanation whose under sentence cites the over probability
ExplainUnderCitesOver(player, stat_type, line_value, projection, edge, probability_over, recommendation, risk_mode_) ==
    LET base_val == IF stat_type = "kills" THEN player.kills_per_map
                    ELSE player.assists_per_map
        direction == IF RGt(projection, line_value) THEN "over" ELSE "under"
        risk_label == CASE risk_mode_ = "safe" -> "conservative"
                        [] risk_mode_ = "standard" -> "balanced"
                        [] risk_mode_ = "yolo" -> "aggressive"
        prob_over_pct == RMul(probability_over, Q(100, 1))
        prob_text ==
            IF recommendation = "Lean Over"
            THEN [says |-> "chance to go over the line",
                  pct |-> Fmt(prob_over_pct, 0)]
            ELSE IF recommendation = "Lean Under"
            THEN [says |-> "chance to stay under",
                  pct |-> Fmt(prob_over_pct, 0)]
            ELSE [says |-> "close to a coin flip", pct |-> -1]
    IN  [handle |-> player.handle,
         team |-> player.team,
         role |-> player.role,
         base_val |-> Fmt(base_val, 1),
         stat_type |-> stat_type,
         maps |-> player.maps_played,
         projection |-> Fmt(projection, 1),
         line_value |-> Fmt(line_value, 1),
         direction |-> direction,
         gap |-> Fmt(RAbs(RSub(projection, line_value)), 1),
         rating |-> Fmt(player.rating, 2),
         kast |-> Fmt(player.kast, 2),
         suggesting |-> IF RGe(player.kast, Q(78, 100)) THEN "high consistency"
                        ELSE "some volatility",
         prob_text |-> prob_text,
         risk_label |-> risk_label,
         recommendation |-> recommendation,
         edge |-> Fmt(edge, 2)]

\* the text of _explain_pick, as the values it prints: numbers as the
\* integers their format spec prints (in units of 10^-digits), the branches
\* of the text as the words chosen
_explain_pick(player, stat_type, line_value, projection, edge, probability_over, recommendation, risk_mode_) ==
    LET base_val == IF stat_type = "kills" THEN player.kills_per_map
                    ELSE player.assists_per_map
        direction == IF RGt(projection, line_value) THEN "over" ELSE "under"
        risk_label == CASE risk_mode_ = "safe" -> "conservative"
                        [] risk_mode_ = "standard" -> "balanced"
                        [] risk_mode_ = "yolo" -> "aggressive"
        prob_over_pct == RMul(probability_over, Q(100, 1))
        prob_text ==
            IF recommendation = "Lean Over"
            THEN [says |-> "chance to go over the line",
                  pct |-> Fmt(prob_over_pct, 0)]
            ELSE IF recommendation = "Lean Under"
            THEN [says |-> "chance to stay under",
                  pct |-> Fmt(RSub(Q(100, 1), prob_over_pct), 0)]
            ELSE [says |-> "close to a coin flip", pct |-> -1]
    IN  [handle |-> player.handle,
         team |-> player.team,
         role |-> player.role,
         base_val |-> Fmt(base_val, 1),
         stat_type |-> stat_type,
         maps |-> player.maps_played,
         projection |-> Fmt(projection, 1),
         line_value |-> Fmt(line_value, 1),
         direction |-> direction,
         gap |-> Fmt(RAbs(RSub(projection, line_value)), 1),
         rating |-> Fmt(player.rating, 2),
         kast |-> Fmt(player.kast, 2),
         suggesting |-> IF RGe(player.kast, Q(78, 100)) THEN "high consistency"
                        ELSE "some volatility",
         prob_text |-> prob_text,
         risk_label |-> risk_label,
         recommendation |-> recommendation,
         edge |-> Fmt(edge, 2)]

\* the body of the inner loop of build_picks: the PickResult of one player
\* and one stat type
PickResult(player, stat_type, risk_mode_) ==
    LET projection == _projection_for_stat(player, stat_type)
        line_value == _line_for_stat(player, stat_type)
        spread == _spread_for_stat(player, stat_type)
        edge == _edge_score(projection, line_value, spread)
        prob_over == _edge_to_probability_over(edge)
        rec == _recommendation_from_edge(edge, risk_mode_, stat_type)
        conf == _confidence_from_edge(edge)
        explanation == _explain_pick(player, stat_type, line_value, projection,
                                     edge, prob_over, rec, risk_mode_)
    IN  [player_id |-> player.id,
         player_handle |-> player.handle,
         team_name |-> player.team,
         role |-> player.role,
         stat_type |-> stat_type,
         line_value |-> line_value,
         projected_value |-> projection,
         edge |-> edge,
         probability_over |-> prob_over,
         recommendation |-> rec,
         confidence |-> conf,
         explanation |-> explanation,
         raw_player |-> player]

\* a loop that appends a pick only when it is a lean
RECURSIVE StatLoopLeansOnly(_, _, _, _)
StatLoopLeansOnly(player, stat_types, risk_mode_, acc) ==
    IF stat_types = <<>> THEN acc
    ELSE LET p == PickResult(player, Head(stat_types), risk_mode_)
         IN  StatLoopLeansOnly(player, Tail(stat_types), risk_mode_,
                               IF p.recommendation = "Stay Away" THEN acc
                               ELSE Append(acc, p))

\* for stat_type in ("kills", "assists"): picks.append(...)
RECURSIVE StatLoop(_, _, _, _)
StatLoop(player, stat_types, risk_mode_, acc) ==
    IF stat_types = <<>> THEN acc
    ELSE StatLoop(player, Tail(stat_types), risk_mode_,
                  Append(acc, PickResult(player, Head(stat_types), risk_mode_)))

\* for player in players: ...
RECURSIVE PlayerLoop(_, _, _)
PlayerLoop(player_list, risk_mode_, acc) ==
    IF player_list = <<>> THEN acc
    ELSE PlayerLoop(Tail(player_list), risk_mode_,
                    StatLoop(Head(player_list), StatTypes, risk_mode_, acc))

\* a sort key without abs
SortKeySigned(p) == p.edge

\* the sort key: key=lambda p: abs(p.edge)
SortKey(p) == RAbs(p.edge)

\* picks.sort(key=..., reverse=True): larger keys first, picks of equal key
\* in their order in the list (list.sort is stable, also when reversed)
RECURSIVE InsertByKey(_, _)
InsertByKey(sorted, p) ==
    IF sorted = <<>> THEN <<p>>
    ELSE IF RGe(SortKey(Head(sorted)), SortKey(p))
    THEN <<Head(sorted)>> \o InsertByKey(Tail(sorted), p)
    ELSE <<p>> \o sorted

RECURSIVE SortPicks(_, _)
SortPicks(pick_list, sorted) ==
    IF pick_list = <<>> THEN sorted
    ELSE SortPicks(Tail(pick_list), InsertByKey(sorted, Head(pick_list)))

\* a list that keeps the picks of the call before
KeptPickList(old_list) == old_list

\* picks: List[PickResult] = [] -- the list of a call starts empty, whatever
\* the list of the call before held
NewPickList(old_list) == <<>>

\* fetch_vlr_stats: the table of the segments the endpoint serves, the empty
\* table when there are none
fetch_vlr_stats(served) == served

\* build_picks from its players on: the loops, then the sort
AssemblePicks(player_list, risk_mode_, old_list) ==
    SortPicks(PlayerLoop(player_list, risk_mode_, NewPickList(old_list)), <<>>)

(***************************************************************************)
(* Inputs: the rows the endpoint may serve.                                *)
(***************************************************************************)
\* rows that differ in rating and KAST
RatedRows ==
    [player : {"aspas"}, org : {"MIBR"},
     rating : {Bad, Num(130, 100)},
     kills_per_round : {Num(91, 100)},
     assists_per_round : {Num(30, 100)},
     kill_assists_survived_traded : {Bad, Pct(150), Pct(-5), Pct(85)},
     rounds_played : {Num(220, 1)},
     agents : {<<"Jett">>}, agent : {<<>>}]

\* rows without team, with columns missing or with small values
SparseRow(kpr, apr, rounds) ==
    [player |-> "Less", org |-> "",
     rating |-> Num(100, 100),
     kills_per_round |-> kpr,
     assists_per_round |-> apr,
     kill_assists_survived_traded |-> Absent,
     rounds_played |-> rounds,
     agents |-> <<>>, agent |-> <<"Omen", "Sova">>]

SparseRows ==
    {SparseRow(Absent, Absent, Absent),
     SparseRow(Num(75, 100), Num(2, 100), Num(5, 1))}

StatsRows == RatedRows \cup SparseRows

Payloads == UNION {[1..k -> StatsRows] : k \in 0..MaxPlayers}

EdgeGrid == {Q(e, 100) : e \in (-MaxEdge)..MaxEdge}

NoCall == [risk_mode |-> "none", players |-> <<>>, picks |-> <<>>]

(***************************************************************************)
(* The engine: calls of build_picks on the served rows.                    *)
(***************************************************************************)
UnitIdle ==
    /\ edge_in = Q(0, 1)
    /\ stat_in = "none"
    /\ mode_in = "none"
    /\ rec_out = "none"
    /\ conf_out = "none"
    /\ prob_out = Q(-1, 1)

\* no player record and no arguments handed over yet
NoPlayer == [handle |-> "none"]
NoArgs == [projection |-> Q(0, 1), line_value |-> Q(0, 1), spread |-> Q(1, 1)]

StepIdle ==
    /\ player_in = NoPlayer
    /\ pick_mode = "none"
    /\ pick_out = <<>>
    /\ edge_args = NoArgs
    /\ edge_out = <<>>

EngineIdle ==
    /\ players = <<>>
    /\ risk_mode = "none"
    /\ picks = <<>>
    /\ earlier = NoCall

Init ==
    /\ segments \in Payloads
    /\ EngineIdle
    /\ UnitIdle
    /\ StepIdle

\* build_picks(region, timespan, risk_mode_): fetch, build the players,
\* assemble and sort the picks
BuildPicks(risk_mode_) ==
    /\ players' = build_players_from_stats(fetch_vlr_stats(segments))
    /\ picks' = AssemblePicks(players', risk_mode_, picks)
    /\ risk_mode' = risk_mode_
    /\ earlier' = [risk_mode |-> risk_mode, players |-> players, picks |-> picks]
    /\ UNCHANGED <<segments, unitVars, stepVars>>

Next == \E r \in RiskModes : BuildPicks(r)

Spec == Init /\ [][Next]_vars

(***************************************************************************)
(* The classifiers and the probability function, called on their own.      *)
(***************************************************************************)
InitUnit ==
    /\ segments = <<>>
    /\ EngineIdle
    /\ StepIdle
    /\ edge_in \in EdgeGrid
    /\ stat_in = "none"
    /\ mode_in = "none"
    /\ rec_out = "none"
    /\ conf_out = "none"
    /\ prob_out = Q(-1, 1)

Recommend(risk_mode_, stat_type) ==
    /\ rec_out' = _recommendation_from_edge(edge_in, risk_mode_, stat_type)
    /\ mode_in' = risk_mode_
    /\ stat_in' = stat_type
    /\ UNCHANGED <<engineVars, stepVars, edge_in, conf_out, prob_out>>

Confidence ==
    /\ conf_out' = _confidence_from_edge(edge_in)
    /\ UNCHANGED <<engineVars, stepVars, edge_in, stat_in, mode_in, rec_out, prob_out>>

Probability ==
    /\ prob_out' = _edge_to_probability_over(edge_in)
    /\ UNCHANGED <<engineVars, stepVars, edge_in, stat_in, mode_in, rec_out, conf_out>>

NextUnit ==
    \/ \E r \in RiskModes, s \in {"kills", "assists"} : Recommend(r, s)
    \/ Confidence
    \/ Probability

SpecUnit == InitUnit /\ [][NextUnit]_vars

(***************************************************************************)
(* The body of the loop of build_picks, run on one player record.          *)
(* The records differ in the five numbers the body reads; a consistency of *)
(* 4 is outside the range the ingestion produces and makes the spread      *)
(* before its floor negative.                                              *)
(***************************************************************************)
PlayerRecords ==
    [id : {"mibraspas"}, handle : {"aspas"}, team : {"MIBR"}, role : {"duelist"},
     kills_per_map : {Q(0, 1), Q(5, 1), Q(20, 1), Q(41, 2)},
     assists_per_map : {Q(3, 10), Q(5, 2), Q(66, 10)},
     rating : {Q(1, 2), Q(1, 1), Q(13, 10)},
     kast : {Q(0, 1), Q(72, 100), Q(85, 100)},
     maps_played : {10},
     consistency : {Q(0, 1), Q(1, 2), Q(1, 1), Q(4, 1)}]

InitPick ==
    /\ segments = <<>>
    /\ EngineIdle
    /\ UnitIdle
    /\ player_in \in PlayerRecords
    /\ pick_mode = "none"
    /\ pick_out = <<>>
    /\ edge_args = NoArgs
    /\ edge_out = <<>>

\* one run of the body: the PickResult of player_in for a stat type
Pick(stat_type, risk_mode_) ==
    /\ pick_out' = <<PickResult(player_in, stat_type, risk_mode_)>>
    /\ pick_mode' = risk_mode_
    /\ UNCHANGED <<engineVars, unitVars, player_in, edge_args, edge_out>>

NextPick == \E s \in {"kills", "assists"}, r \in RiskModes : Pick(s, r)

SpecPick == InitPick /\ [][NextPick]_vars

(***************************************************************************)
(* _edge_score, called on its own, also with spreads that are not          *)
(* positive.                                                               *)
(***************************************************************************)
EdgeArguments ==
    [projection : {Q(0, 1), Q(5, 1), Q(41, 2), Q(45, 2)},
     line_value : {Q(1, 2), Q(11, 2), Q(41, 2)},
     spread : {Q(-1, 1), Q(0, 1), Q(1, 4), Q(1, 2), Q(255, 100), Q(3, 1)}]

InitEdge ==
    /\ segments = <<>>
    /\ EngineIdle
    /\ UnitIdle
    /\ player_in = NoPlayer
    /\ pick_mode = "none"
    /\ pick_out = <<>>
    /\ edge_args \in EdgeArguments
    /\ edge_out = <<>>

EdgeScore ==
    /\ edge_out' = <<_edge_score(edge_args.projection, edge_args.line_value,
                                 edge_args.spread)>>
    /\ UNCHANGED <<engineVars, unitVars, player_in, pick_mode, pick_out, edge_args>>

NextEdge == EdgeScore

SpecEdge == InitEdge /\ [][NextEdge]_vars

(***************************************************************************)
(* Properties of build_picks (checked under Spec).                         *)
(***************************************************************************)
Called == risk_mode # "none"

\* the picks of the list for one player record and one stat type
PicksOf(pick_list, player, stat_type) ==
    {j \in DOMAIN pick_list : /\ pick_list[j].raw_player = player
                              /\ pick_list[j].stat_type = stat_type}

\* C1: build_picks returns exactly 2 x (number of players) PickResults: for
\* each input player exactly one "kills" and exactly one "assists" pick (a
\* record that occurs k times in the input has k of each), and no pick of
\* any other player or category; no players give no picks.
C1_TwoPicksPerPlayer ==
    Called =>
        /\ Len(picks) = 2 * Len(players)
        /\ \A i \in DOMAIN players : \A s \in {"kills", "assists"} :
               Cardinality(PicksOf(picks, players[i], s))
                   = Cardinality({k \in DOMAIN players : players[k] = players[i]})
        /\ \A j \in DOMAIN picks :
               /\ picks[j].stat_type \in {"kills", "assists"}
               /\ \E i \in DOMAIN players : picks[j].raw_player = players[i]

C1_Witness ==
    /\ Called
    /\ Len(players) >= 2
    /\ players[1] # players[2]
    /\ Len(picks) = 2 * Len(players)

\* |a| >= |b| for two rationals, on their numerators and denominators
AbsGe(a, b) == IAbs(a.n) * b.d >= IAbs(b.n) * a.d

\* C2: the list returned by build_picks is in descending order of |edge|:
\* at adjacent positions i, i+1, |edge_i| >= |edge_{i+1}|, whatever the
\* signs of the edges and the recommendations.
C2_SortedByAbsEdge ==
    Called =>
        \A i \in 1..(Len(picks) - 1) : AbsGe(picks[i].edge, picks[i + 1].edge)

\* the sort moved a pick, and a negative edge stands before a positive one
C2_Witness ==
    /\ Called
    /\ picks # PlayerLoop(players, risk_mode, <<>>)
    /\ \E i, j \in DOMAIN picks :
           /\ i < j
           /\ picks[i].edge.n < 0
           /\ picks[j].edge.n > 0
           /\ ~AbsGe(picks[j].edge, picks[i].edge)

\* a list of picks without the recommendations and explanations
Unlabelled(pick_list) ==
    [j \in DOMAIN pick_list |->
        <<pick_list[j].raw_player, pick_list[j].stat_type,
          pick_list[j].line_value, pick_list[j].projected_value,
          pick_list[j].edge, pick_list[j].probability_over,
          pick_list[j].confidence>>]

\* C3: the posture affects only the labels: two calls on the same players
\* under any two postures return the same (player, category) pairs in the
\* same order with the same line_value, projected_value, edge,
\* probability_over and confidence.
C3_PostureOnlyLabels ==
    (Called /\ earlier.risk_mode # "none" /\ earlier.players = players) =>
        Unlabelled(earlier.picks) = Unlabelled(picks)

\* two calls under different postures that labelled some pick differently
C3_Witness ==
    /\ Called
    /\ earlier.risk_mode \notin {"none", risk_mode}
    /\ earlier.players = players
    /\ Len(picks) >= 4
    /\ Len(earlier.picks) = Len(picks)
    /\ \E j \in DOMAIN picks :
           earlier.picks[j].recommendation # picks[j].recommendation

\* C9: every player record of build_players_from_stats has 0 <= kast <= 1,
\* 0 <= consistency <= 1 and maps_played >= 1, also for rows whose KAST
\* field parses to more than 100% or less than 0%.
C9_PlayerRecordRanges ==
    \A i \in DOMAIN players :
        /\ players[i].kast.n >= 0
        /\ players[i].kast.n <= players[i].kast.d
        /\ players[i].consistency.n >= 0
        /\ players[i].consistency.n <= players[i].consistency.d
        /\ players[i].maps_played >= 1

EdgeGe(c) == edge_in.n * 100 >= c * edge_in.d
EdgeLe(c) == edge_in.n * 100 <= c * edge_in.d
MagGe(c) == IAbs(edge_in.n) * 100 >= c * edge_in.d

\* the threshold table of the specification, in hundredths
TableThreshold(mode, stat) ==
    CASE mode = "safe" /\ stat = "kills" -> 100
      [] mode = "safe" /\ stat = "assists" -> 90
      [] mode = "standard" /\ stat = "kills" -> 70
      [] mode = "standard" /\ stat = "assists" -> 60
      [] mode = "yolo" /\ stat = "kills" -> 40
      [] mode = "yolo" /\ stat = "assists" -> 35

\* C4: the recommendation is one of the three labels: "Lean Over" iff
\* edge >= threshold, "Lean Under" iff edge <= -threshold, "Stay Away"
\* otherwise, with the threshold of the table for the posture and the
\* category; an edge equal to the threshold or its negative gives a lean.
C4_RecommendationRule ==
    rec_out # "none" =>
        LET thr == TableThreshold(mode_in, stat_in)
        IN  /\ rec_out \in {"Lean Over", "Lean Under", "Stay Away"}
            /\ (rec_out = "Lean Over") <=> EdgeGe(thr)
            /\ (rec_out = "Lean Under") <=> EdgeLe(-thr)
            /\ (rec_out = "Stay Away") <=> (~EdgeGe(thr) /\ ~EdgeLe(-thr))

\* an edge equal to the negative of the threshold
C4_Witness ==
    /\ rec_out = "Lean Under"
    /\ mode_in = "yolo"
    /\ stat_in = "assists"
    /\ edge_in = Q(-35, 100)

\* C5: the thresholds are monotone: for each category,
\* threshold(yolo) < threshold(standard) < threshold(safe), and at each
\* posture the kills threshold is strictly above the assists threshold.
C5_ThresholdsMonotone ==
    rec_out # "none" =>
        /\ RLt(Threshold("yolo", stat_in), Threshold("standard", stat_in))
        /\ RLt(Threshold("standard", stat_in), Threshold("safe", stat_in))
        /\ RGt(Threshold(mode_in, "kills"), Threshold(mode_in, "assists"))

\* an edge between the yolo thresholds of the two categories: a lean for
\* assists
C5_Witness ==
    /\ rec_out = "Lean Over"
    /\ mode_in = "yolo"
    /\ stat_in = "assists"
    /\ EdgeGe(35)
    /\ ~EdgeGe(40)

\* C6: confidence is a function of |edge| alone: "High" iff |edge| >= 1.5,
\* "Medium" iff 0.8 <= |edge| < 1.5, "Low" iff |edge| < 0.8; so the
\* confidence of -edge is the confidence of edge.
C6_ConfidenceByMagnitude ==
    conf_out # "none" =>
        /\ conf_out \in {"High", "Medium", "Low"}
        /\ (conf_out = "High") <=> MagGe(150)
        /\ (conf_out = "Medium") <=> (MagGe(80) /\ ~MagGe(150))
        /\ (conf_out = "Low") <=> ~MagGe(80)
        /\ _confidence_from_edge(RNeg(edge_in)) = conf_out

C6_Witness ==
    /\ conf_out = "Medium"
    /\ edge_in = Q(-80, 100)

ProbCalled == prob_out # Q(-1, 1)

\* C7: 0.01 <= probability_over(edge) <= 0.99 for every edge, so it is
\* never 0 and never 1, however extreme the edge.
C7_ProbabilityInBand ==
    ProbCalled =>
        /\ prob_out.n * 100 >= prob_out.d
        /\ prob_out.n * 100 <= 99 * prob_out.d
        /\ prob_out.n # 0
        /\ prob_out.n # prob_out.d

\* the largest edge of the grid, where erf is 1.0
C7_Witness ==
    /\ ProbCalled
    /\ edge_in = Q(MaxEdge, 100)
    /\ ErfOfZ(edge_in) = Q(1, 1)
    /\ prob_out = Q(99, 100)

\* the probability function before the clamp: 0.5 * (1 + erf(z / sqrt(2)))
NormalCdf(z) == RMul(Q(1, 2), RAdd(Q(1, 1), ErfOfZ(z)))
InBand(z) == RGe(NormalCdf(z), Q(1, 100)) /\ RLe(NormalCdf(z), Q(99, 100))

\* probability_over and the band on the grid: entry e is for the edge e/100
GridProbability ==
    [e \in (-MaxEdge)..MaxEdge |-> _edge_to_probability_over(Q(e, 100))]
GridInBand == [e \in (-MaxEdge)..MaxEdge |-> InBand(Q(e, 100))]

\* the edge e/100 is below edge_in
BelowEdgeIn(e) == e * edge_in.d < edge_in.n * 100

\* C8, as stated: probability_over is strictly increasing in edge, for all
\* edges e1 < e2, also those whose normal-CDF value is outside the band.
C8_StrictlyIncreasing ==
    ProbCalled =>
        \A e \in (-MaxEdge)..MaxEdge :
            BelowEdgeIn(e) => RLt(GridProbability[e], prob_out)

\* C8, amended: probability_over is non-decreasing in edge for all edges,
\* and strictly increasing between edges at least 0.01 apart whose
\* normal-CDF values both lie in the band [0.01, 0.99].
C8_NonDecreasing ==
    ProbCalled =>
        \A e \in (-MaxEdge)..MaxEdge :
            BelowEdgeIn(e) =>
                /\ RLe(GridProbability[e], prob_out)
                /\ (GridInBand[e] /\ InBand(edge_in)) =>
                       RLt(GridProbability[e], prob_out)

\* two edges above the band with the same probability, 0.99
C8_Witness ==
    /\ ProbCalled
    /\ edge_in = Q(300, 100)
    /\ ~InBand(edge_in)
    /\ prob_out = _edge_to_probability_over(Q(250, 100))

(***************************************************************************)
(* Properties of the body of the loop (checked under SpecPick).  The body  *)
(* computes the spread of a pick and does not store it; it is              *)
(* _spread_for_stat of the player and the stat type of the pick.           *)
(***************************************************************************)
Picked == pick_out # <<>>
ThePick == pick_out[1]
TheSpread == _spread_for_stat(player_in, ThePick.stat_type)

\* a = n/d, on numerators and denominators
Is(a, n, d) == a.n * d = n * a.d

\* C11: for kills baseline 20, rating 1.3, KAST 0.85, consistency 0.5 the
\* kills pick has projection 22.5, line 20.5, spread 2.55 and edge
\* 2/2.55 = 40/51 (about 0.784); under "standard" it is "Lean Over" with
\* confidence "Low".
C11_WorkedExample ==
    (/\ Picked
     /\ Is(player_in.kills_per_map, 20, 1)
     /\ Is(player_in.rating, 13, 10)
     /\ Is(player_in.kast, 85, 100)
     /\ Is(player_in.consistency, 1, 2)
     /\ ThePick.stat_type = "kills") =>
        /\ Is(ThePick.projected_value, 225, 10)
        /\ Is(ThePick.line_value, 205, 10)
        /\ Is(TheSpread, 255, 100)
        /\ Is(ThePick.edge, 40, 51)
        /\ ThePick.confidence = "Low"
        /\ pick_mode = "standard" => ThePick.recommendation = "Lean Over"

C11_Witness ==
    /\ Picked
    /\ pick_mode = "standard"
    /\ ThePick.stat_type = "kills"
    /\ player_in.kills_per_map = Q(20, 1)
    /\ player_in.rating = Q(13, 10)
    /\ player_in.kast = Q(85, 100)
    /\ player_in.consistency = Q(1, 2)
    /\ ThePick.recommendation = "Lean Over"

\* the baseline rate of the category of the pick
Baseline(player, stat_type) ==
    IF stat_type = "kills" THEN player.kills_per_map ELSE player.assists_per_map
TheBaseline == Baseline(player_in, ThePick.stat_type)

\* a rational in thousandths and in hundredths (exact on the records)
Thousandths(a) == (a.n * 1000) \div a.d
Hundredths(a) == (a.n * 100) \div a.d

\* baseline + ka*(rating - 1.0) + kb*(KAST - 0.72), in thousandths, with
\* (ka, kb) = (4.0, 10.0) for kills and (2.5, 6.0) for assists
RawProjection ==
    LET ka == IF ThePick.stat_type = "kills" THEN 40 ELSE 25
        kb == IF ThePick.stat_type = "kills" THEN 100 ELSE 60
    IN  Thousandths(TheBaseline)
        + ka * (Hundredths(player_in.rating) - 100)
        + kb * (Hundredths(player_in.kast) - 72)

\* C12: the projection is max(0, baseline + ka*(rating - 1.0) +
\* kb*(KAST - 0.72)); it is never negative, and it is the baseline when
\* rating = 1.0, KAST = 0.72 and the baseline is not negative.
C12_ProjectionFormula ==
    Picked =>
        /\ Is(ThePick.projected_value,
              IF RawProjection > 0 THEN RawProjection ELSE 0, 1000)
        /\ ThePick.projected_value.n >= 0
        /\ (/\ Is(player_in.rating, 1, 1)
            /\ Is(player_in.kast, 72, 100)
            /\ TheBaseline.n >= 0) => ThePick.projected_value = TheBaseline

\* the formula is negative and the projection is 0
C12_Witness ==
    /\ Picked
    /\ RawProjection < 0
    /\ ThePick.projected_value = Q(0, 1)

\* m is round(a): the nearest integer, the even one of the two on a tie
IsRound(a, m) ==
    LET t == 2 * (a.n - m * a.d)
    IN  \/ (-a.d < t /\ t < a.d)
        \/ (IAbs(t) = a.d /\ m % 2 = 0)

\* C13: the line is a positive half-integer n + 0.5, n >= 0: for kills
\* round(kills baseline) + 0.5, for assists
\* max(0.5, round(assists baseline) - 0.5); it is the same for all records
\* with the same baseline of the category.
C13_LineHalfInteger ==
    Picked =>
        LET line == ThePick.line_value
            fl == TheBaseline.n \div TheBaseline.d
        IN  /\ line.d = 2
            /\ line.n > 0
            /\ \E m \in {fl, fl + 1} :
                   /\ IsRound(TheBaseline, m)
                   /\ IF ThePick.stat_type = "kills"
                      THEN Is(line, 2 * m + 1, 2)
                      ELSE Is(line, IF 2 * m - 1 > 1 THEN 2 * m - 1 ELSE 1, 2)
            /\ \A q \in PlayerRecords :
                   Baseline(q, ThePick.stat_type) = TheBaseline =>
                       _line_for_stat(q, ThePick.stat_type) = line

\* an assists baseline that rounds to 0: the line is the minimum, 0.5
C13_Witness ==
    /\ Picked
    /\ ThePick.stat_type = "assists"
    /\ player_in.assists_per_map = Q(3, 10)
    /\ ThePick.line_value = Q(1, 2)

\* C14: the spread is max(0.5, base*(1 - 0.3*consistency)) with base 3.0
\* for kills and 2.0 for assists, so at least 0.5; the edge of the pick is
\* (projection - line) / spread with that spread: the replacement of a
\* spread <= 0 is not taken.
C14_SpreadFloored ==
    Picked =>
        LET base == IF ThePick.stat_type = "kills" THEN 3 ELSE 2
            c == player_in.consistency
            adjn == base * (10 * c.d - 3 * c.n)
            adjd == 10 * c.d
            diff == RSub(ThePick.projected_value, ThePick.line_value)
        IN  /\ IF 2 * adjn > adjd THEN Is(TheSpread, adjn, adjd)
               ELSE Is(TheSpread, 1, 2)
            /\ 2 * TheSpread.n >= TheSpread.d
            /\ TheSpread.n > 0
            /\ ThePick.edge.n * TheSpread.n * diff.d
                   = diff.n * ThePick.edge.d * TheSpread.d

\* a consistency that makes base*(1 - 0.3*consistency) negative
C14_Witness ==
    /\ Picked
    /\ player_in.consistency = Q(4, 1)
    /\ TheSpread = Q(1, 2)
    /\ ThePick.edge.n # 0

(***************************************************************************)
(* Properties of _edge_score (checked under SpecEdge).                     *)
(***************************************************************************)
Scored == edge_out # <<>>

\* the sign of an integer: -1, 0 or 1
Sign(i) == IF i < 0 THEN -1 ELSE IF i > 0 THEN 1 ELSE 0

\* C15: _edge_score does not divide by zero or by a negative number: for
\* spread > 0 it returns (projection - line) / spread, for spread <= 0 it
\* returns (projection - line) / 0.5; the sign of the edge is the sign of
\* projection - line.
C15_EdgeScoreGuarded ==
    Scored =>
        LET e == edge_out[1]
            sp == edge_args.spread
            diff == RSub(edge_args.projection, edge_args.line_value)
        IN  /\ e.d > 0
            /\ sp.n > 0 => e.n * sp.n * diff.d = diff.n * e.d * sp.d
            /\ sp.n <= 0 => e.n * diff.d = 2 * diff.n * e.d
            /\ Sign(e.n) = Sign(diff.n)

\* a spread of 0 and a projection that differs from the line
C15_Witness ==
    /\ Scored
    /\ edge_args.spread = Q(0, 1)
    /\ edge_args.projection # edge_args.line_value
    /\ edge_out[1].n # 0

(***************************************************************************)
(* Properties of the explanation (checked under SpecPick).                 *)
(***************************************************************************)
\* pct is the integer :.0f prints for the rational a: |pct - a| <= 1/2
Prints(pct, a) ==
    LET t == 2 * (pct * a.d - a.n)
    IN  -a.d <= t /\ t <= a.d

\* C16: the direction word is "over" iff projection > line, "under"
\* otherwise (also when they are equal); the probability sentence cites
\* 100*probability_over for "Lean Over", 100 - 100*probability_over for
\* "Lean Under", and is the coin-flip sentence without a figure for
\* "Stay Away"; the posture adjective is conservative / balanced /
\* aggressive for safe / standard / yolo.
C16_ExplanationBranches ==
    Picked =>
        LET x == ThePick.explanation
            proj == ThePick.projected_value
            line == ThePick.line_value
            pct_over == [n |-> 100 * ThePick.probability_over.n,
                         d |-> ThePick.probability_over.d]
            pct_under == [n |-> 100 * pct_over.d - pct_over.n, d |-> pct_over.d]
        IN  /\ x.direction \in {"over", "under"}
            /\ (x.direction = "over") <=> (proj.n * line.d > line.n * proj.d)
            /\ x.recommendation = ThePick.recommendation
            /\ ThePick.recommendation = "Lean Over" =>
                   /\ x.prob_text.says = "chance to go over the line"
                   /\ Prints(x.prob_text.pct, pct_over)
            /\ ThePick.recommendation = "Lean Under" =>
                   /\ x.prob_text.says = "chance to stay under"
                   /\ Prints(x.prob_text.pct, pct_under)
            /\ ThePick.recommendation = "Stay Away" =>
                   /\ x.prob_text.says = "close to a coin flip"
                   /\ x.prob_text.pct = -1
            /\ pick_mode = "safe" => x.risk_label = "conservative"
            /\ pick_mode = "standard" => x.risk_label = "balanced"
            /\ pick_mode = "yolo" => x.risk_label = "aggressive"

\* an under lean whose sentence cites the probability to stay under
C16_Witness ==
    /\ Picked
    /\ ThePick.recommendation = "Lean Under"
    /\ ThePick.explanation.direction = "under"
    /\ ThePick.explanation.prob_text.pct > 50
    /\ ThePick.explanation.prob_text.pct < 99

(***************************************************************************)
(* Properties of the labels of the picks of build_picks (checked under     *)
(* Spec) and of the classifier across postures (checked under SpecUnit).   *)
(***************************************************************************)
\* C17: in every pick of build_picks the label, the numbers and the text
\* agree: "Lean Over" implies edge > 0, projected_value > line_value,
\* probability_over > 0.5 and the direction word "over"; "Lean Under"
\* implies edge < 0, projected_value < line_value, probability_over < 0.5
\* and the direction word "under"; the figure a lean cites is above 50%.
C17_LabelsAgree ==
    Called =>
        \A j \in DOMAIN picks :
            LET p == picks[j]
                over == p.recommendation = "Lean Over"
                under == p.recommendation = "Lean Under"
                gap == p.projected_value.n * p.line_value.d
                           - p.line_value.n * p.projected_value.d
            IN  /\ over => /\ p.edge.n > 0
                           /\ gap > 0
                           /\ 2 * p.probability_over.n > p.probability_over.d
                           /\ p.explanation.direction = "over"
                /\ under => /\ p.edge.n < 0
                            /\ gap < 0
                            /\ 2 * p.probability_over.n < p.probability_over.d
                            /\ p.explanation.direction = "under"
                /\ (over \/ under) => p.explanation.prob_text.pct > 50

\* a list with an over lean and an under lean
C17_Witness ==
    /\ Called
    /\ \E j \in DOMAIN picks : picks[j].recommendation = "Lean Over"
    /\ \E j \in DOMAIN picks : picks[j].recommendation = "Lean Under"

\* the postures more aggressive than a posture
MoreAggressive(mode) ==
    CASE mode = "safe" -> {"standard", "yolo"}
      [] mode = "standard" -> {"yolo"}
      [] mode = "yolo" -> {}

\* C18: a lean under a posture is the same lean under every more
\* aggressive posture (safe < standard < yolo); so "Stay Away" under a
\* posture is "Stay Away" under every less aggressive one, and no change of
\* posture turns "Lean Over" into "Lean Under" or back.
C18_LeansMonotone ==
    rec_out # "none" =>
        /\ rec_out # "Stay Away" =>
               \A m \in MoreAggressive(mode_in) :
                   _recommendation_from_edge(edge_in, m, stat_in) = rec_out
        /\ rec_out = "Stay Away" =>
               \A m \in RiskModes :
                   mode_in \in MoreAggressive(m) =>
                       _recommendation_from_edge(edge_in, m, stat_in) = "Stay Away"
        /\ \A m \in RiskModes :
               <<rec_out, _recommendation_from_edge(edge_in, m, stat_in)>>
                   \notin {<<"Lean Over", "Lean Under">>, <<"Lean Under", "Lean Over">>}

\* an under lean under the least aggressive posture
C18_Witness ==
    /\ rec_out = "Lean Under"
    /\ mode_in = "safe"
    /\ stat_in = "kills"
    /\ edge_in = Q(-100, 100)

\* C19: in every pick of build_picks, "High" does not occur with
\* "Stay Away"; "Medium" occurs with "Stay Away" only under "safe", with
\* |edge| in [0.8, 1.0) for kills and [0.8, 0.9) for assists; under
\* "standard" and "yolo" every "Stay Away" pick is "Low".
C19_ConfidenceWithStayAway ==
    Called =>
        \A j \in DOMAIN picks :
            LET p == picks[j]
                mag100 == [n |-> 100 * IAbs(p.edge.n), d |-> p.edge.d]
                top == IF p.stat_type = "kills" THEN 100 ELSE 90
            IN  p.recommendation = "Stay Away" =>
                    /\ p.confidence # "High"
                    /\ p.confidence = "Medium" =>
                           /\ risk_mode = "safe"
                           /\ mag100.n >= 80 * mag100.d
                           /\ mag100.n < top * mag100.d
                    /\ risk_mode \in {"standard", "yolo"} => p.confidence = "Low"

\* a "Medium" pick that is "Stay Away" under "safe"
C19_Witness ==
    /\ Called
    /\ risk_mode = "safe"
    /\ \E j \in DOMAIN picks : /\ picks[j].recommendation = "Stay Away"
                               /\ picks[j].confidence = "Medium"

====
